---- MODULE Spec2Model ----
(***************************************************************************)
(* The debug syscalls of kernel/lib/syscalls/syscalls_debug.cpp:           *)
(* sys_debug_transfer_handle, sys_process_read_memory,                     *)
(* sys_process_write_memory, sys_ktrace_write, sys_thread_read_state and   *)
(* sys_thread_write_state, over per-process handle tables, one address     *)
(* space per live process, storage objects (VMOs), one thread's register   *)
(* state and the kernel trace log.                                         *)
(***************************************************************************)
EXTENDS Integers, Sequences, FiniteSets, TLC

VARIABLES
    handles,     \* handles[p]: the handle table of process p, a set of handles
    xfer,        \* xfer[t]: thread t's position in sys_debug_transfer_handle
    vmoData,     \* vmoData[v]: the bytes of storage object v, indexed from 0
    threadRegs,  \* the register-state blob of the debugged thread
    ktraceLog,   \* the trace log: the probe slots opened so far
    last         \* history: the arguments and results of the latest completed call

vars == <<handles, xfer, vmoData, threadRegs, ktraceLog, last>>

(***************************************************************************)
(* Status codes and rights.                                                *)
(***************************************************************************)
NO_ERROR == "NO_ERROR"
ERR_INVALID_ARGS == "ERR_INVALID_ARGS"
ERR_BAD_HANDLE == "ERR_BAD_HANDLE"
ERR_WRONG_TYPE == "ERR_WRONG_TYPE"
ERR_ACCESS_DENIED == "ERR_ACCESS_DENIED"
ERR_BAD_STATE == "ERR_BAD_STATE"
ERR_NO_MEMORY == "ERR_NO_MEMORY"
ERR_BUFFER_TOO_SMALL == "ERR_BUFFER_TOO_SMALL"
ERR_UNAVAILABLE == "ERR_UNAVAILABLE"
ERR_NOT_SUPPORTED == "ERR_NOT_SUPPORTED"

MX_RIGHT_READ == "READ"
MX_RIGHT_WRITE == "WRITE"

Min(a, b) == IF a <= b THEN a ELSE b

(***************************************************************************)
(* The processes, kernel objects and handles of the model.  Process 1 is   *)
(* the debugger: every syscall is made by one of its threads.  Process 2   *)
(* is live, process 3 is torn down (no address space).                     *)
(***************************************************************************)
Procs == {1, 2, 3}
Threads == {"t1", "t2"}
ThreadProc(t) == 1

ProcessObj(p) == [kind |-> "process", id |-> p]
ThreadObj == [kind |-> "thread", id |-> 1]
ResourceObj == [kind |-> "resource", id |-> 1]
VmoObj == [kind |-> "vmo", id |-> 1]

\* A handle: the kernel object it refers to and its rights bitmask.
Handle(k, obj, rights) == [id |-> k, obj |-> obj, rights |-> rights]

AllHandles ==
    { Handle(1, ProcessObj(2), {MX_RIGHT_READ, MX_RIGHT_WRITE}),
      Handle(2, ProcessObj(2), {MX_RIGHT_WRITE}),
      Handle(3, ProcessObj(2), {MX_RIGHT_READ}),
      Handle(4, ProcessObj(3), {MX_RIGHT_READ, MX_RIGHT_WRITE}),
      Handle(5, ProcessObj(1), {MX_RIGHT_READ, MX_RIGHT_WRITE}),
      Handle(6, ThreadObj, {MX_RIGHT_READ, MX_RIGHT_WRITE}),
      Handle(7, ThreadObj, {MX_RIGHT_READ}),
      Handle(8, ThreadObj, {MX_RIGHT_WRITE}),
      Handle(9, ResourceObj, {MX_RIGHT_READ, MX_RIGHT_WRITE}),
      Handle(10, VmoObj, {MX_RIGHT_READ, MX_RIGHT_WRITE}) }

NumHandles == Cardinality(AllHandles)
MX_HANDLE_INVALID == 0
HandleValues == 0 .. NumHandles

\* The process-local value under which process p knows handle h: a
\* per-process permutation of the handle ids, so that one handle has
\* different values in different processes.
MapHandleToValue(p, h) == ((h.id + p - 2) % NumHandles) + 1

\* The handle process p's table holds under value hv, as a set (empty or one).
Lookup(tbl, p, hv) == { h \in tbl[p] : MapHandleToValue(p, h) = hv }

\* ProcessDispatcher::GetDispatcher(handle_value, &dispatcher, rights): the
\* handle must be in the caller's table, refer to an object of the wanted
\* kind and carry every wanted right.
GetDispatcher(tbl, up, hv, kind, rights) ==
    LET found == Lookup(tbl, up, hv) IN
    IF found = {} THEN [status |-> ERR_BAD_HANDLE, obj |-> ProcessObj(0)]
    ELSE LET h == CHOOSE x \in found : TRUE IN
         IF h.obj.kind # kind THEN [status |-> ERR_WRONG_TYPE, obj |-> h.obj]
         ELSE IF ~(rights \subseteq h.rights)
              THEN [status |-> ERR_ACCESS_DENIED, obj |-> h.obj]
              ELSE [status |-> NO_ERROR, obj |-> h.obj]

\* ProcessDispatcher::RemoveHandle(handle_value): under the table's lock,
\* takes the handle out of the table; an empty result when it is absent.
RemoveHandle(tbl, p, hv) ==
    [removed |-> Lookup(tbl, p, hv),
     table |-> [tbl EXCEPT ![p] = tbl[p] \ Lookup(tbl, p, hv)]]

\* ProcessDispatcher::AddHandle(handle): under the table's lock, puts the
\* handle into the table.
AddHandle(tbl, p, h) == [tbl EXCEPT ![p] = tbl[p] \cup {h}]

\* validate_resource_handle(handle): the handle resolves, in the caller's
\* table, to a resource object; no right is asked for.
validate_resource_handle(tbl, up, hv) ==
    GetDispatcher(tbl, up, hv, "resource", {}).status

(***************************************************************************)
(* Address spaces, regions and storage objects.                            *)
(***************************************************************************)
kMaxDebugReadBlock == 64 * 1024 * 1024
kMaxDebugWriteBlock == 64 * 1024 * 1024

MaxAddr == 3
VmoSize == 3
Addrs == 0 .. MaxAddr
Vmos == {1}
NoVmo == 0
NoAspace == [live |-> FALSE, regions |-> {}]
NULL == -1

\* process->aspace(): process 2 maps [1, 3) onto storage object 1 from
\* object offset 1 and has at address 3 a region without a storage object;
\* process 3 is torn down.
Aspace(p) ==
    IF p = 2
    THEN [live |-> TRUE,
          regions |-> { [base |-> 1, size |-> 2, object_offset |-> 1, vmo |-> 1],
                        [base |-> 3, size |-> 1, object_offset |-> 0, vmo |-> NoVmo] }]
    ELSE IF p = 1 THEN [live |-> TRUE, regions |-> {}]
    ELSE NoAspace

\* VmAspace::FindRegion(vaddr): the regions containing vaddr (none or one,
\* the regions of an address space do not overlap).
FindRegion(aspace, vaddr) ==
    { r \in aspace.regions : r.base <= vaddr /\ vaddr < r.base + r.size }

\* Byte i of the caller's source buffer with contents pat.
UserByte(pat, i) == (pat + i) % 2

\* The bounded transfer of a storage object: of len bytes asked for at
\* offset, those up to the object's end.  Every region lies inside its
\* object, so offset is below the object's size.
VmoTrim(data, offset, len) == Min(len, VmoSize - offset)

\* VmObject::ReadUser(buffer, offset, len, &read)
VmoReadUser(data, offset, len) ==
    LET n == VmoTrim(data, offset, len) IN
    [status |-> NO_ERROR, n |-> n, bytes |-> [i \in 1 .. n |-> data[offset + i - 1]]]

\* VmObject::WriteUser(buffer, offset, len, &written)
VmoWriteUser(data, offset, len, pat) ==
    LET n == VmoTrim(data, offset, len) IN
    [status |-> NO_ERROR, n |-> n,
     bytes |-> [i \in 1 .. n |-> UserByte(pat, i - 1)],
     data |-> [i \in 0 .. VmoSize - 1 |->
                  IF offset <= i /\ i < offset + n
                  THEN UserByte(pat, i - offset) ELSE data[i]]]

(***************************************************************************)
(* sys_process_read_memory and sys_process_write_memory.  Each is one      *)
(* step: the handle table and the address space are only read, and the     *)
(* storage object gives each call one consistent view.  An action binds    *)
(* the result r of its call once, as the only element of a set.            *)
(***************************************************************************)

\* The rights each call asks of the process handle (lines 148-149, 188).
ReadMemoryRights_ReadOnly == {MX_RIGHT_READ}
ReadMemoryRights == {MX_RIGHT_READ, MX_RIGHT_WRITE}
WriteMemoryRights == {MX_RIGHT_WRITE}

\* Line 165 and line 204: the offset into the storage object.
ReadOffset(vaddr, region) == vaddr - region.base + region.object_offset
WriteOffset_NoObjectOffset(vaddr, region) == vaddr - region.base
WriteOffset(vaddr, region) == vaddr - region.base + region.object_offset

\* Lines 142 and 182: the length check.
ReadLenOk(len) == ~(len = 0 \/ len > kMaxDebugReadBlock)
WriteLenOk(len) == ~(len = 0 \/ len > kMaxDebugWriteBlock)

\* Lines 153-155 and 192-194: a process without an address space.
AspaceStatus_Unchecked(aspace) == NO_ERROR
AspaceStatus(aspace) == IF ~aspace.live THEN ERR_BAD_STATE ELSE NO_ERROR

\* Lines 157-159 and 196-198: no region contains the address.
RegionStatus_WrongCode(found) == IF found = {} THEN ERR_BAD_STATE ELSE NO_ERROR
RegionStatus(found) == IF found = {} THEN ERR_NO_MEMORY ELSE NO_ERROR

\* The result of a call that returns before it reaches the storage object:
\* no byte is transferred and the storage objects are as they were.
Early(status, target) ==
    [status |-> status, target |-> target, n |-> 0, bytes |-> <<>>, data |-> vmoData]

\* Lines 140-174.  The result: the status returned, the process the handle
\* resolved to (0 when the call returned before), the bytes copied into the
\* caller's buffer and their number.
ProcessReadMemory(up, proc, vaddr, buffer, len, actualOk) ==
    IF buffer = NULL THEN Early(ERR_INVALID_ARGS, 0)
    ELSE IF ~ReadLenOk(len) THEN Early(ERR_INVALID_ARGS, 0)
    ELSE LET got == GetDispatcher(handles, up, proc, "process", ReadMemoryRights) IN
    IF got.status # NO_ERROR THEN Early(got.status, 0)
    ELSE LET aspace == Aspace(got.obj.id) IN
    IF AspaceStatus(aspace) # NO_ERROR THEN Early(AspaceStatus(aspace), got.obj.id)
    ELSE LET found == FindRegion(aspace, vaddr) IN
    IF RegionStatus(found) # NO_ERROR THEN Early(RegionStatus(found), got.obj.id)
    ELSE LET region == CHOOSE r \in found : TRUE IN
    IF region.vmo = NoVmo THEN Early(ERR_NO_MEMORY, got.obj.id)
    ELSE LET rd == VmoReadUser(vmoData[region.vmo], ReadOffset(vaddr, region), len) IN
    [status |-> IF rd.status = NO_ERROR /\ ~actualOk THEN ERR_INVALID_ARGS
                ELSE rd.status,
     target |-> got.obj.id, n |-> rd.n, bytes |-> rd.bytes, data |-> vmoData]

\* Lines 180-213.  The result: as for a read, with the bytes taken from the
\* caller's buffer and the storage object's contents after the call.
ProcessWriteMemory(up, proc, vaddr, buffer, len, actualOk) ==
    IF buffer = NULL THEN Early(ERR_INVALID_ARGS, 0)
    ELSE IF ~WriteLenOk(len) THEN Early(ERR_INVALID_ARGS, 0)
    ELSE LET got == GetDispatcher(handles, up, proc, "process", WriteMemoryRights) IN
    IF got.status # NO_ERROR THEN Early(got.status, 0)
    ELSE LET aspace == Aspace(got.obj.id) IN
    IF AspaceStatus(aspace) # NO_ERROR THEN Early(AspaceStatus(aspace), got.obj.id)
    ELSE LET found == FindRegion(aspace, vaddr) IN
    IF RegionStatus(found) # NO_ERROR THEN Early(RegionStatus(found), got.obj.id)
    ELSE LET region == CHOOSE r \in found : TRUE IN
    IF region.vmo = NoVmo THEN Early(ERR_NO_MEMORY, got.obj.id)
    ELSE LET wr == VmoWriteUser(vmoData[region.vmo], WriteOffset(vaddr, region),
                                len, buffer) IN
    [status |-> IF wr.status = NO_ERROR /\ ~actualOk THEN ERR_INVALID_ARGS
                ELSE wr.status,
     target |-> got.obj.id, n |-> wr.n, bytes |-> wr.bytes,
     data |-> [vmoData EXCEPT ![region.vmo] = wr.data]]

\* History: the source buffer and the byte count of the write this call
\* follows at once, when that write returned NO_ERROR and was made with the
\* same handle, address and length; empty otherwise.
FollowsWrite(proc, vaddr, len) ==
    IF /\ last.op = "write" /\ last.status = NO_ERROR
       /\ last.proc = proc /\ last.vaddr = vaddr /\ last.len = len
    THEN <<[buffer |-> last.buffer, n |-> last.n]>> ELSE <<>>

sys_process_read_memory(up, proc, vaddr, buffer, len, actualOk) ==
    \E r \in {ProcessReadMemory(up, proc, vaddr, buffer, len, actualOk)} :
    /\ last' = [op |-> "read", status |-> r.status, proc |-> proc, vaddr |-> vaddr,
                len |-> len, target |-> r.target, n |-> r.n, bytes |-> r.bytes,
                ptrsOk |-> (buffer # NULL /\ actualOk),
                after |-> FollowsWrite(proc, vaddr, len)]
    /\ UNCHANGED <<handles, xfer, vmoData, threadRegs, ktraceLog>>

sys_process_write_memory(up, proc, vaddr, buffer, len, actualOk) ==
    \E r \in {ProcessWriteMemory(up, proc, vaddr, buffer, len, actualOk)} :
    /\ vmoData' = r.data
    /\ last' = [op |-> "write", status |-> r.status, proc |-> proc, vaddr |-> vaddr,
                len |-> len, target |-> r.target, n |-> r.n, bytes |-> r.bytes,
                ptrsOk |-> (buffer # NULL /\ actualOk), buffer |-> buffer]
    /\ UNCHANGED <<handles, xfer, threadRegs, ktraceLog>>

\* The arguments the memory calls are made with: a READ|WRITE, a WRITE-only
\* and a READ-only handle to the live process 2 and a READ|WRITE handle to
\* the torn-down process 3; every address; a zero length, lengths inside the
\* object, the largest length allowed and the first one refused; a null
\* buffer or one of two buffer contents; an `actual` pointer that can or
\* cannot be written.
MemProcArgs == {1, 2, 3, 4}
MemLenArgs == {0, 1, 2, kMaxDebugWriteBlock, kMaxDebugWriteBlock + 1}
MemBufferArgs == {NULL, 0, 1}

NextMem ==
    \E proc \in MemProcArgs, vaddr \in Addrs, len \in MemLenArgs, actualOk \in BOOLEAN :
        \/ \E buffer \in {NULL, 0} :
              sys_process_read_memory(1, proc, vaddr, buffer, len, actualOk)
        \/ \E buffer \in MemBufferArgs :
              sys_process_write_memory(1, proc, vaddr, buffer, len, actualOk)

(***************************************************************************)
(* sys_thread_read_state and sys_thread_write_state.  The debugged thread  *)
(* has one supported state kind, whose blob is StateSize bytes long.       *)
(***************************************************************************)

\* MX_MAX_THREAD_STATE_SIZE, scaled down to the model's two-byte blob.
kMaxThreadStateSize == 3
StateSize == 2
SupportedKind == 1

\* Thread::ReadState(state_kind, buffer, &buffer_len): an unsupported kind
\* is refused; a buffer below the blob's size gets nothing but the size
\* needed; otherwise the blob is copied and its size reported.
ReadState(regs, state_kind, buffer_len) ==
    IF state_kind # SupportedKind
    THEN [status |-> ERR_NOT_SUPPORTED, len |-> buffer_len, bytes |-> <<>>]
    ELSE IF buffer_len < StateSize
    THEN [status |-> ERR_BUFFER_TOO_SMALL, len |-> StateSize, bytes |-> <<>>]
    ELSE [status |-> NO_ERROR, len |-> StateSize, bytes |-> regs]

\* Thread::WriteState(state_kind, buffer, buffer_len, priv): an unsupported
\* kind or a length that is not the blob's size is refused before anything
\* is written.
WriteState(regs, state_kind, pat, buffer_len) ==
    IF state_kind # SupportedKind
    THEN [status |-> ERR_NOT_SUPPORTED, regs |-> regs]
    ELSE IF buffer_len # StateSize
    THEN [status |-> ERR_INVALID_ARGS, regs |-> regs]
    ELSE [status |-> NO_ERROR, regs |-> [i \in 1 .. StateSize |-> UserByte(pat, i - 1)]]

\* The rights asked of the thread handle (lines 276 and 322).
ReadStateRights == {MX_RIGHT_READ}
WriteStateRights == {MX_RIGHT_WRITE}

\* Line 298: the statuses with which the size is stored through _buffer_len.
ReportsSize_OnlyOnSuccess(status) == status = NO_ERROR
ReportsSize(status) == status = NO_ERROR \/ status = ERR_BUFFER_TOO_SMALL

\* A result of sys_thread_read_state: the status, what was stored through
\* _buffer_len (empty when nothing was) and the bytes copied to the caller.
ReadStateResult(status, stored, bytes) ==
    [status |-> status, stored |-> stored, bytes |-> bytes]

\* Lines 272-310.  lenPtr is the _buffer_len pointer: "rw", "ro" (readable,
\* not writable) or "bad"; bufOk is whether _buffer_ptr can be written;
\* allocOk whether the allocation of the temporary buffer succeeds.
ThreadReadState(up, handle, state_kind, bufOk, lenPtr, buffer_len, allocOk) ==
    LET got == GetDispatcher(handles, up, handle, "thread", ReadStateRights) IN
    IF got.status # NO_ERROR THEN ReadStateResult(got.status, <<>>, <<>>)
    ELSE IF lenPtr = "bad" THEN ReadStateResult(ERR_INVALID_ARGS, <<>>, <<>>)
    ELSE IF buffer_len > kMaxThreadStateSize
    THEN ReadStateResult(ERR_INVALID_ARGS, <<>>, <<>>)
    ELSE IF ~allocOk THEN ReadStateResult(ERR_NO_MEMORY, <<>>, <<>>)
    ELSE LET rs == ReadState(threadRegs, state_kind, buffer_len)
             report == ReportsSize(rs.status)
         IN
    IF report /\ lenPtr # "rw" THEN ReadStateResult(ERR_INVALID_ARGS, <<>>, <<>>)
    ELSE LET stored == IF report THEN <<rs.len>> ELSE <<>> IN
    IF rs.status # NO_ERROR THEN ReadStateResult(rs.status, stored, <<>>)
    ELSE IF ~bufOk THEN ReadStateResult(ERR_INVALID_ARGS, stored, <<>>)
    ELSE ReadStateResult(NO_ERROR, stored, [i \in 1 .. rs.len |-> rs.bytes[i]])

\* Lines 318-342.  The result: the status and the thread's registers after
\* the call.
ThreadWriteState(up, handle, state_kind, bufOk, pat, buffer_len, allocOk) ==
    LET got == GetDispatcher(handles, up, handle, "thread", WriteStateRights) IN
    IF got.status # NO_ERROR THEN [status |-> got.status, regs |-> threadRegs]
    ELSE IF buffer_len > kMaxThreadStateSize
    THEN [status |-> ERR_INVALID_ARGS, regs |-> threadRegs]
    ELSE IF ~allocOk THEN [status |-> ERR_NO_MEMORY, regs |-> threadRegs]
    ELSE IF ~bufOk THEN [status |-> ERR_INVALID_ARGS, regs |-> threadRegs]
    ELSE WriteState(threadRegs, state_kind, pat, buffer_len)

\* History: the size reported by the read this call follows at once, when
\* that read returned ERR_BUFFER_TOO_SMALL and was made with the same handle
\* and state kind; empty otherwise.
FollowsTooSmall(handle, state_kind) ==
    IF /\ last.op = "read_state" /\ last.status = ERR_BUFFER_TOO_SMALL
       /\ last.handle = handle /\ last.kind = state_kind
    THEN last.stored ELSE <<>>

sys_thread_read_state(up, handle, state_kind, bufOk, lenPtr, buffer_len, allocOk) ==
    \E r \in {ThreadReadState(up, handle, state_kind, bufOk, lenPtr, buffer_len,
                               allocOk)} :
    /\ last' = [op |-> "read_state", status |-> r.status, handle |-> handle,
                kind |-> state_kind, len |-> buffer_len, stored |-> r.stored,
                bytes |-> r.bytes, bufOk |-> bufOk,
                envOk |-> (lenPtr = "rw" /\ allocOk),
                after |-> FollowsTooSmall(handle, state_kind)]
    /\ UNCHANGED <<handles, xfer, vmoData, threadRegs, ktraceLog>>

sys_thread_write_state(up, handle, state_kind, bufOk, pat, buffer_len, allocOk) ==
    \E r \in {ThreadWriteState(up, handle, state_kind, bufOk, pat, buffer_len,
                                allocOk)} :
    /\ threadRegs' = r.regs
    /\ last' = [op |-> "write_state", status |-> r.status, handle |-> handle,
                kind |-> state_kind, len |-> buffer_len, pat |-> pat]
    /\ UNCHANGED <<handles, xfer, vmoData, ktraceLog>>

\* The arguments of the thread-state calls: a READ|WRITE, a READ-only and a
\* WRITE-only handle to the thread; the supported kind and another one;
\* every length up to one past the maximum.
ThreadHandleArgs == {6, 7, 8}
KindArgs == {SupportedKind, SupportedKind + 1}
StateLenArgs == 0 .. kMaxThreadStateSize + 1

NextThread ==
    \E handle \in ThreadHandleArgs, state_kind \in KindArgs,
       buffer_len \in StateLenArgs, bufOk \in BOOLEAN, allocOk \in BOOLEAN :
        \/ \E lenPtr \in {"rw", "ro", "bad"} :
              sys_thread_read_state(1, handle, state_kind, bufOk, lenPtr,
                                    buffer_len, allocOk)
        \/ \E pat \in {0, 1} :
              sys_thread_write_state(1, handle, state_kind, bufOk, pat,
                                     buffer_len, allocOk)

(***************************************************************************)
(* sys_ktrace_write and the trace log.                                     *)
(***************************************************************************)
KtraceSlots == 2
kMaxEventId == 2047

\* TAG_PROBE_24(event_id): the tag of a 24-byte probe record keyed by the
\* event id.
TAG_PROBE_24(event_id) == [group |-> "probe", evt |-> event_id, size |-> 24]

\* ktrace_open(tag): opens the log's next slot for a record with this tag
\* and returns its index; 0 (no slot) when the log is full.
ktrace_open(log, tag) ==
    IF Len(log) < KtraceSlots
    THEN [slot |-> Len(log) + 1, log |-> Append(log, [tag |-> tag, args |-> <<0, 0>>])]
    ELSE [slot |-> 0, log |-> log]

\* Line 253: the event id check.
EventIdOk_OffByOne(event_id) == ~(event_id >= kMaxEventId)
EventIdOk(event_id) == ~(event_id > kMaxEventId)

\* Lines 248-265.  The result: the status and the log after the call.
KtraceWrite(up, handle, event_id, arg0, arg1) ==
    LET status == validate_resource_handle(handles, up, handle) IN
    IF status # NO_ERROR THEN [status |-> status, log |-> ktraceLog]
    ELSE IF ~EventIdOk(event_id) THEN [status |-> ERR_INVALID_ARGS, log |-> ktraceLog]
    ELSE LET opened == ktrace_open(ktraceLog, TAG_PROBE_24(event_id)) IN
    IF opened.slot = 0 THEN [status |-> ERR_UNAVAILABLE, log |-> ktraceLog]
    ELSE [status |-> NO_ERROR,
          log |-> [opened.log EXCEPT ![opened.slot].args = <<arg0, arg1>>]]

sys_ktrace_write(up, handle, event_id, arg0, arg1) ==
    \E r \in {KtraceWrite(up, handle, event_id, arg0, arg1)} :
    /\ ktraceLog' = r.log
    /\ last' = [op |-> "ktrace_write", status |-> r.status, handle |-> handle,
                event_id |-> event_id, arg0 |-> arg0, arg1 |-> arg1]
    /\ UNCHANGED <<handles, xfer, vmoData, threadRegs>>

\* The arguments of the trace calls: the resource handle, a thread handle
\* and the invalid value; an event id inside the range, the largest one
\* allowed and the first one refused; two values for each word.
KtraceHandleArgs == {9, 6, MX_HANDLE_INVALID}
EventIdArgs == {16, kMaxEventId, kMaxEventId + 1}

NextKtrace ==
    \E handle \in KtraceHandleArgs, event_id \in EventIdArgs,
       arg0 \in {1, 2}, arg1 \in {2, 3} :
        sys_ktrace_write(1, handle, event_id, arg0, arg1)

(***************************************************************************)
(* Initial state: the debugger's table holds every handle, no call has     *)
(* been made, storage and registers are zeroed, the trace log is empty.    *)
(***************************************************************************)
NoRet == [status |-> "none", value |-> 0]
IdleThread ==
    [pc |-> "idle", proc |-> MX_HANDLE_INVALID, src |-> MX_HANDLE_INVALID,
     target |-> 0, held |-> {}, moved |-> {}, srcLive |-> FALSE, ret |-> NoRet]
NoCall == [op |-> "none", status |-> "none"]

(***************************************************************************)
(* sys_debug_transfer_handle(proc, src_handle), one step per access to a   *)
(* handle table: each of GetDispatcher, RemoveHandle and AddHandle takes   *)
(* the table's lock for itself, so other threads run between them.         *)
(***************************************************************************)

\* Line 125: the target is the calling process.
IsSelf_Never(process, up) == FALSE
IsSelf(process, up) == process = up

\* Lines 116-126: resolve the target process handle with READ|WRITE and
\* refuse a transfer to the calling process itself.
TransferLookup(t, proc, src) ==
    LET up == ThreadProc(t)
        got == GetDispatcher(handles, up, proc, "process",
                             {MX_RIGHT_READ, MX_RIGHT_WRITE})
        call == [IdleThread EXCEPT !.proc = proc, !.src = src,
                                   !.srcLive = Lookup(handles, up, src) # {}]
    IN  /\ xfer[t].pc = "idle"
        /\ xfer' = [xfer EXCEPT ![t] =
              IF got.status # NO_ERROR
              THEN [call EXCEPT !.ret = [status |-> got.status, value |-> 0]]
              ELSE IF IsSelf(got.obj.id, up)
              THEN [call EXCEPT !.target = got.obj.id,
                                !.ret = [status |-> ERR_INVALID_ARGS, value |-> 0]]
              ELSE [call EXCEPT !.pc = "remove", !.target = got.obj.id]]
        /\ UNCHANGED <<handles, vmoData, threadRegs, ktraceLog, last>>

\* A variant that looks the source handle up and leaves it in the table.
TransferRemove_Peek(t) ==
    LET up == ThreadProc(t)
        found == Lookup(handles, up, xfer[t].src)
    IN  /\ xfer[t].pc = "remove"
        /\ handles' = handles
        /\ xfer' = [xfer EXCEPT ![t] =
              IF found = {}
              THEN [@ EXCEPT !.pc = "idle",
                             !.ret = [status |-> ERR_BAD_HANDLE, value |-> 0]]
              ELSE [@ EXCEPT !.pc = "add", !.held = found]]
        /\ UNCHANGED <<vmoData, threadRegs, ktraceLog, last>>

\* Lines 128-130: take the source handle out of the caller's table.
TransferRemove(t) ==
    LET up == ThreadProc(t)
        r == RemoveHandle(handles, up, xfer[t].src)
    IN  /\ xfer[t].pc = "remove"
        /\ handles' = r.table
        /\ xfer' = [xfer EXCEPT ![t] =
              IF r.removed = {}
              THEN [@ EXCEPT !.pc = "idle",
                             !.ret = [status |-> ERR_BAD_HANDLE, value |-> 0]]
              ELSE [@ EXCEPT !.pc = "add", !.held = r.removed]]
        /\ UNCHANGED <<vmoData, threadRegs, ktraceLog, last>>

\* A variant that puts the handle back into the caller's table.
TransferAdd_ToCaller(t) ==
    LET h == CHOOSE x \in xfer[t].held : TRUE
        dest_hv == MapHandleToValue(xfer[t].target, h)
    IN  /\ xfer[t].pc = "add"
        /\ handles' = AddHandle(handles, ThreadProc(t), h)
        /\ xfer' = [xfer EXCEPT ![t] =
              [@ EXCEPT !.pc = "idle", !.held = {}, !.moved = {h},
                        !.ret = [status |-> NO_ERROR, value |-> dest_hv]]]
        /\ UNCHANGED <<vmoData, threadRegs, ktraceLog, last>>

\* Lines 132-134: compute the handle's value in the target, put the handle
\* into the target's table and return the value.
TransferAdd(t) ==
    LET h == CHOOSE x \in xfer[t].held : TRUE
        dest_hv == MapHandleToValue(xfer[t].target, h)
    IN  /\ xfer[t].pc = "add"
        /\ handles' = AddHandle(handles, xfer[t].target, h)
        /\ xfer' = [xfer EXCEPT ![t] =
              [@ EXCEPT !.pc = "idle", !.held = {}, !.moved = {h},
                        !.ret = [status |-> NO_ERROR, value |-> dest_hv]]]
        /\ UNCHANGED <<vmoData, threadRegs, ktraceLog, last>>

Init ==
    /\ handles = [p \in Procs |-> IF p = 1 THEN AllHandles ELSE {}]
    /\ xfer = [t \in Threads |-> IdleThread]
    /\ vmoData = [v \in Vmos |-> [i \in 0 .. VmoSize - 1 |-> 0]]
    /\ threadRegs = [i \in 1 .. StateSize |-> 0]
    /\ ktraceLog = <<>>
    /\ last = NoCall

\* The arguments the transfer calls are made with: as target, a READ|WRITE
\* handle to process 2 and to process 3, a WRITE-only handle to process 2,
\* the handle to the caller itself, a handle to a resource and the invalid
\* value; as source, the resource handle, the storage object handle and the
\* invalid value.
XferProcArgs == {1, 4, 2, 5, 9, MX_HANDLE_INVALID}
XferSrcArgs == {9, 10, MX_HANDLE_INVALID}

NextXfer ==
    \E t \in Threads :
        \/ \E proc \in XferProcArgs, src \in XferSrcArgs : TransferLookup(t, proc, src)
        \/ TransferRemove(t)
        \/ TransferAdd(t)

SpecXfer == Init /\ [][NextXfer]_vars

SpecMem == Init /\ [][NextMem]_vars

SpecThread == Init /\ [][NextThread]_vars

SpecKtrace == Init /\ [][NextKtrace]_vars

Next == NextXfer \/ NextMem \/ NextThread \/ NextKtrace

Spec == Init /\ [][Next]_vars

(***************************************************************************)
(* Properties of the memory calls, checked under SpecMem.                  *)
(***************************************************************************)

\* The rights of the handle the caller knows under value hv.
RightsOf(hv) == UNION { h.rights : h \in Lookup(handles, 1, hv) }

IsMemCall == last.op = "read" \/ last.op = "write"

\* The bytes read are the first ones of the source buffer of the write.
SameBytes(bytes, buffer) ==
    \A i \in 1 .. Len(bytes) : bytes[i] = UserByte(buffer, i - 1)

\* A read of N bytes at V, made with a valid buffer and `actual` pointer
\* right after a write of N bytes at V through the same handle returned
\* NO_ERROR.
ReadAfterWrite == last.op = "read" /\ last.ptrsOk /\ last.after # <<>>

\* C1 as claimed: through a handle with WRITE access, a write of N bytes
\* (0 < N <= 64 MiB) at a mapped address V followed by a read of N bytes at
\* V through the same handle returns the same N bytes that were written.
C1_RoundTrip_AsClaimed ==
    ReadAfterWrite =>
        /\ last.status = NO_ERROR
        /\ last.n = last.len
        /\ SameBytes(last.bytes, last.after[1].buffer)

\* C1 as amended: through a handle with both READ and WRITE rights, a write
\* of N bytes at V that returned NO_ERROR and transferred A bytes (A = N
\* unless the storage object ends sooner), followed by a read of N bytes at
\* V through the same handle, returns NO_ERROR and the same A bytes.
C1_RoundTrip ==
    (ReadAfterWrite /\ {MX_RIGHT_READ, MX_RIGHT_WRITE} \subseteq RightsOf(last.proc)) =>
        /\ last.status = NO_ERROR
        /\ last.n = last.after[1].n
        /\ Len(last.bytes) = last.n
        /\ SameBytes(last.bytes, last.after[1].buffer)

\* C1's case: two bytes written at address 1 through the READ|WRITE handle
\* and read back.
C1_Witness ==
    /\ ReadAfterWrite
    /\ last.proc = 1 /\ last.vaddr = 1 /\ last.len = 2
    /\ last.status = NO_ERROR
    /\ last.bytes = <<1, 0>>

\* C4: a read transfers bytes only through a handle with READ and WRITE, a
\* write only through a handle with WRITE; with fewer rights no byte is
\* transferred and the call returns the handle lookup's error
\* (ERR_ACCESS_DENIED), or ERR_INVALID_ARGS when its arguments were refused
\* before the lookup.
C4_RightsGate ==
    LET need == IF last.op = "read" THEN ReadMemoryRights ELSE WriteMemoryRights
        argsOk == last.ptrsOk /\ ReadLenOk(last.len)
    IN  IsMemCall =>
        /\ (last.op = "read" /\ last.n > 0) =>
               {MX_RIGHT_READ, MX_RIGHT_WRITE} \subseteq RightsOf(last.proc)
        /\ (last.op = "write" /\ last.n > 0) => MX_RIGHT_WRITE \in RightsOf(last.proc)
        /\ (last.op = "read" /\ RightsOf(last.proc) = {MX_RIGHT_WRITE}) => last.n = 0
        /\ (last.op = "read" /\ RightsOf(last.proc) = {MX_RIGHT_READ}) => last.n = 0
        /\ (last.op = "write" /\ RightsOf(last.proc) = {MX_RIGHT_READ}) => last.n = 0
        /\ ~(need \subseteq RightsOf(last.proc)) =>
               /\ last.n = 0
               /\ last.status \in {ERR_ACCESS_DENIED, ERR_INVALID_ARGS}
               /\ argsOk => last.status = ERR_ACCESS_DENIED

\* C4's case: a read through the WRITE-only handle is denied right after a
\* write through that handle went through.
C4_Witness ==
    /\ last.op = "read" /\ last.after # <<>>
    /\ RightsOf(last.proc) = {MX_RIGHT_WRITE}
    /\ last.status = ERR_ACCESS_DENIED /\ last.n = 0

\* C5: a memory call whose handle resolved to a process without a live
\* address space returns ERR_BAD_STATE.
C5_TornDown ==
    (IsMemCall /\ last.target # 0 /\ ~Aspace(last.target).live) =>
        last.status = ERR_BAD_STATE /\ last.n = 0

\* C5's case: a write to the torn-down process 3 with arguments that would
\* reach a region in a live process.
C5_Witness ==
    /\ last.op = "write" /\ last.target = 3 /\ last.vaddr = 1 /\ last.len = 1
    /\ last.status = ERR_BAD_STATE

\* C6: a memory call on an address outside every region of a live process
\* returns ERR_NO_MEMORY and transfers no byte.
C6_Unmapped ==
    (/\ IsMemCall /\ last.target # 0 /\ Aspace(last.target).live
     /\ FindRegion(Aspace(last.target), last.vaddr) = {}) =>
        last.status = ERR_NO_MEMORY /\ last.n = 0

\* C6's case: a read at the unmapped address 0 of process 2, after its
\* storage object has been written.
C6_Witness ==
    /\ last.op = "read" /\ last.target = 2 /\ last.vaddr = 0
    /\ last.status = ERR_NO_MEMORY
    /\ \E i \in 0 .. VmoSize - 1 : vmoData[1][i] # 0

\* A step in which a call of this kind returns: the transfer call keeps its
\* result in xfer, every other call in last.
Returned(op) == xfer' = xfer /\ last'.op = op

\* C7 as claimed: whenever sys_process_write_memory, sys_thread_write_state,
\* sys_ktrace_write or sys_debug_transfer_handle returns ERR_INVALID_ARGS,
\* the call has left the storage objects, the thread's registers, the trace
\* log and the handle tables unchanged.
C7_ValidationFirst_AsClaimed ==
    [][ (\/ /\ (Returned("write") \/ Returned("write_state") \/ Returned("ktrace_write"))
            /\ last'.status = ERR_INVALID_ARGS
         \/ \E t \in Threads : /\ xfer'[t] # xfer[t]
                               /\ xfer'[t].pc = "idle"
                               /\ xfer'[t].ret.status = ERR_INVALID_ARGS)
        => UNCHANGED <<vmoData, threadRegs, ktraceLog, handles>> ]_vars

(***************************************************************************)
(* Properties of sys_thread_read_state, checked under SpecThread.          *)
(***************************************************************************)

\* C8: sys_thread_read_state through a handle with READ rights, for the
\* supported state kind, with a buffer length below the blob's size (the
\* length pointer usable and the temporary buffer allocated), returns
\* ERR_BUFFER_TOO_SMALL, stores the blob's size through the length pointer
\* and copies no byte; the call that follows with the stored size and a
\* writable buffer returns NO_ERROR and copies exactly that many bytes, the
\* thread's registers.
C8_StateSizing ==
    (/\ last.op = "read_state" /\ MX_RIGHT_READ \in RightsOf(last.handle)
     /\ last.kind = SupportedKind /\ last.envOk) =>
        /\ last.len < StateSize =>
              /\ last.status = ERR_BUFFER_TOO_SMALL
              /\ last.stored = <<StateSize>>
              /\ last.bytes = <<>>
        /\ (last.after # <<>> /\ last.len = last.after[1] /\ last.bufOk) =>
              /\ last.status = NO_ERROR
              /\ last.stored = last.after
              /\ Len(last.bytes) = last.after[1]
              /\ last.bytes = threadRegs

\* C8's case: the retry, with the reported size, of a read that was refused
\* as too small, after the registers have been written.
C8_Witness ==
    /\ last.op = "read_state" /\ last.after = <<StateSize>>
    /\ last.len = StateSize /\ last.bufOk /\ last.envOk
    /\ last.status = NO_ERROR
    /\ last.bytes = <<1, 0>>

(***************************************************************************)
(* Properties of sys_ktrace_write, checked under SpecKtrace.               *)
(***************************************************************************)

\* C9: with a valid resource handle, sys_ktrace_write with an event id above
\* 0x7FF returns ERR_INVALID_ARGS and opens no slot; with an event id up to
\* 0x7FF it returns NO_ERROR and the one slot it opened holds (arg0, arg1)
\* under the event's tag when the log has a free slot, and returns
\* ERR_UNAVAILABLE and leaves the log unchanged when it has none.
C9_EventIdBound ==
    [][ (/\ Returned("ktrace_write")
         /\ validate_resource_handle(handles, 1, last'.handle) = NO_ERROR) =>
           IF last'.event_id > 2047
           THEN last'.status = ERR_INVALID_ARGS /\ ktraceLog' = ktraceLog
           ELSE IF Len(ktraceLog) < KtraceSlots
           THEN /\ last'.status = NO_ERROR
                /\ Len(ktraceLog') = Len(ktraceLog) + 1
                /\ SubSeq(ktraceLog', 1, Len(ktraceLog)) = ktraceLog
                /\ ktraceLog'[Len(ktraceLog')].args = <<last'.arg0, last'.arg1>>
                /\ ktraceLog'[Len(ktraceLog')].tag.evt = last'.event_id
           ELSE last'.status = ERR_UNAVAILABLE /\ ktraceLog' = ktraceLog ]_vars

\* C9's case: the log is full, its last slot was written with event id
\* 0x7FF, and the latest call was refused for its event id.
C9_Witness ==
    /\ Len(ktraceLog) = KtraceSlots
    /\ ktraceLog[KtraceSlots].tag.evt = 2047
    /\ ktraceLog[KtraceSlots].args = <<1, 3>>
    /\ last.op = "ktrace_write" /\ last.handle = 9 /\ last.event_id = 2048
    /\ last.status = ERR_INVALID_ARGS

(***************************************************************************)
(* Properties of sys_debug_transfer_handle, checked under SpecXfer.        *)
(***************************************************************************)

\* The processes whose table holds handle h.
Holders(tbl, h) == { p \in Procs : h \in tbl[p] }

C3_SelfTransfer ==
    [][ \A t \in Threads :
          LET up == ThreadProc(t)
              got == GetDispatcher(handles, up, xfer'[t].proc, "process",
                                   {MX_RIGHT_READ, MX_RIGHT_WRITE})
          IN  (/\ xfer[t].pc = "idle" /\ xfer'[t] # xfer[t]
               /\ got.status = NO_ERROR /\ got.obj.id = up) =>
                 /\ xfer'[t].pc = "idle"
                 /\ xfer'[t].ret.status = ERR_INVALID_ARGS
                 /\ handles' = handles ]_vars

\* C3's case: a self-transfer of a source value that is in the caller's
\* table has been refused, and one of a value that is not.
C3_Witness ==
    /\ xfer["t1"].pc = "idle" /\ xfer["t1"].proc = 5 /\ xfer["t1"].srcLive
    /\ xfer["t1"].ret.status = ERR_INVALID_ARGS
    /\ xfer["t2"].pc = "idle" /\ xfer["t2"].proc = 5 /\ ~xfer["t2"].srcLive
    /\ xfer["t2"].ret.status = ERR_INVALID_ARGS
    /\ Lookup(handles, 1, xfer["t1"].src) # {}

\* A transfer call that has returned after it got past the target lookup
\* and the self check, made while its source value was in the table.
RacedFor(t, src) ==
    /\ xfer[t].pc = "idle" /\ xfer[t].src = src /\ xfer[t].srcLive
    /\ xfer[t].target \in Procs \ {ThreadProc(t)}
    /\ xfer[t].ret.status # "none"

====
